---------------------------- MODULE Spec2Model ----------------------------
(***************************************************************************)
(* A model of nordlys.core.ml.instances.Instances: a collection of         *)
(* Instance objects indexed by instance id, its TSV merge-loaders and its  *)
(* exporters (JSON, string lines, TREC run file, LibSVM/RankLib file).     *)
(*                                                                         *)
(* Representation.                                                         *)
(*   - A Python value that may be None is a sequence of length at most     *)
(*     one: None is << >> and the value v is << v >>.                      *)
(*   - A Python dict with string keys is a TLA+ function whose DOMAIN is   *)
(*     the set of keys; the empty dict is << >>.                           *)
(*   - self.__instances is the pair (order, instances): instances maps an  *)
(*     id to its Instance and order lists the ids in the dict's iteration  *)
(*     order (insertion order).                                            *)
(*   - A file is the sequence of the lines it holds.                       *)
(*   - A string whose characters matter (a sort key, a query id) is the    *)
(*     sequence of its character codes.                                    *)
(***************************************************************************)
EXTENDS Integers, Sequences, FiniteSets, TLC

VARIABLES
    order,      \* iteration order of self.__instances: a sequence of ids
    instances,  \* self.__instances: id -> Instance
    last,       \* the last call made on the collection: its inputs and outcome
    input,      \* the inputs a run was given (sources, destination contents)
    dest        \* the destination file of an exporter: a sequence of lines

vars == <<order, instances, last, input, dest>>

----------------------------------------------------------------------------
(* Generic helpers *)

None == << >>

Some(v) == << v >>

Range(s) == {s[i] : i \in 1..Len(s)}

\* All sequences over S of length 0..n
RECURSIVE SeqsUpTo(_, _)
SeqsUpTo(S, n) ==
    IF n = 0 THEN {<< >>}
    ELSE LET shorter == SeqsUpTo(S, n - 1)
         IN  shorter \cup {Append(s, x) : s \in {t \in shorter : Len(t) = n - 1}, x \in S}

\* The dict d after d[k] = v
DictPut(d, k, v) == [n \in DOMAIN d \cup {k} |-> IF n = k THEN v ELSE d[n]]

----------------------------------------------------------------------------
(* Instance (nordlys.core.ml.instance): id, properties, features, target,  *)
(* score.                                                                  *)

\* Instance(ins_id): no property, no feature, no target, no score
NewInstance(id) ==
    [id |-> id, properties |-> << >>, features |-> << >>, target |-> None, score |-> None]

add_property(ins, name, value) ==
    [ins EXCEPT !.properties = DictPut(@, name, value)]

add_feature(ins, name, value) ==
    [ins EXCEPT !.features = DictPut(@, name, value)]

set_target_Fresh(ins, value) == [NewInstance(ins.id) EXCEPT !.target = Some(value)]

\* ins.target = value
set_target(ins, value) == [ins EXCEPT !.target = Some(value)]

\* the value, or None when the property is not set
get_property(ins, name) ==
    IF name \in DOMAIN ins.properties THEN Some(ins.properties[name]) ELSE None

----------------------------------------------------------------------------
(* Instances: the collection *)

EmptyCollection == [order |-> << >>, instances |-> << >>]

\* self.__instances[instance.id] = instance
add_instance(c, ins) ==
    [order     |-> IF ins.id \in DOMAIN c.instances THEN c.order ELSE Append(c.order, ins.id),
     instances |-> DictPut(c.instances, ins.id, ins)]

\* list(self.__instances.values())
get_all(c) == [i \in 1..Len(c.order) |-> c.instances[c.order[i]]]

----------------------------------------------------------------------------
(* __load_from_tsv *)

\* A TSV source is [header |-> column names, rows |-> rows of cells]; the
\* first column is the id column.  csv.DictReader turns a row into
\* dict(zip(fieldnames, row)): of two columns with one name the later wins.
Cell(src, row, name) ==
    row[CHOOSE i \in 1..Len(src.header) :
            /\ src.header[i] = name
            /\ \A j \in (i + 1)..Len(src.header) : src.header[j] # name]

\* if set(params) != set(reader.fieldnames[1:]): raise
HeaderMismatch_Subset(params, fieldnames) ==
    ~(Range(params) \subseteq Range(Tail(fieldnames)))

HeaderMismatch(params, fieldnames) ==
    Range(params) # Range(Tail(fieldnames))

\* the lookup-or-create of the row's instance
GetOrCreate_AlwaysNew(c, ins_id) ==
    add_instance(c, NewInstance(ins_id))

GetOrCreate(c, ins_id) ==
    IF ins_id \in DOMAIN c.instances
    THEN c
    ELSE add_instance(c, NewInstance(ins_id))

\* for param in params: write line[param] into the instance
RECURSIVE AddParams(_, _, _, _, _)
AddParams(ins, src, row, type, params) ==
    IF params = << >> THEN ins
    ELSE LET param == Head(params)
             value == Cell(src, row, param)
             ins1  == CASE type = "properties" -> add_property(ins, param, value)
                        [] type = "features"   -> add_feature(ins, param, value)
                        [] type = "target"     -> set_target(ins, value)
                        [] OTHER               -> ins
         IN  AddParams(ins1, src, row, type, Tail(params))

\* for line in reader: ...
RECURSIVE LoadRows(_, _, _, _, _)
LoadRows(c, src, rows, type, params) ==
    IF rows = << >> THEN c
    ELSE LET line   == Head(rows)
             ins_id == Cell(src, line, "id")
             c1     == [GetOrCreate(c, ins_id) EXCEPT
                           !.instances[ins_id] = AddParams(@, src, line, type, params)]
         IN  LoadRows(c1, src, Tail(rows), type, params)

\* the whole call: the collection after it and the error raised, if any
load_from_tsv(c, src, type, params) ==
    IF HeaderMismatch(params, src.header)
    THEN [c |-> c, err |-> "schema_mismatch"]
    ELSE [c |-> LoadRows(c, src, src.rows, type, params), err |-> "none"]

----------------------------------------------------------------------------
(* Bounded inputs of the load specifications *)

MaxRows == 2

LoadIds == {"a", "b"}

\* the values a column may hold in a source
ColumnValues(name) == IF name = "p1" THEN {"u", "v"} ELSE {"u"}

\* the calls made: add_properties_from_tsv, add_features_from_tsv and
\* add_target_from_tsv (whose params are always ["target"])
LoadCalls ==
    {[type |-> "properties", params |-> p] : p \in {<<"p1">>, <<"p2">>, <<"p1", "p2">>}}
    \cup {[type |-> "features", params |-> <<"f1">>],
          [type |-> "target", params |-> <<"target">>]}

KindColumns(type) ==
    CASE type = "properties" -> {"p1", "p2"}
      [] type = "features"   -> {"f1"}
      [] OTHER               -> {"target"}

\* headers: the id column, then up to two different columns of the kind
Headers(type) ==
    {<<"id">> \o h : h \in {s \in SeqsUpTo(KindColumns(type), 2) : Cardinality(Range(s)) = Len(s)}}

\* the rows a header admits: one cell per column
RowsOf(header) ==
    {r \in [1..Len(header) -> LoadIds \cup {"u", "v"}] :
        /\ r[1] \in LoadIds
        /\ \A i \in 2..Len(header) : r[i] \in ColumnValues(header[i])}

Sources(type) ==
    UNION {{[header |-> h, rows |-> rs] : rs \in SeqsUpTo(RowsOf(h), MaxRows)} : h \in Headers(type)}

\* every call with every source of its kind, whatever the header
AllLoads == UNION {{[call |-> call, src |-> src] : src \in Sources(call.type)} : call \in LoadCalls}

\* the calls whose source carries exactly the expected columns, in any order
WellFormedLoads == {l \in AllLoads : Range(Tail(l.src.header)) = Range(l.call.params)}

\* the calls, well formed or not, whose cells all hold the value u
PlainLoads ==
    {l \in AllLoads : \A i \in 1..Len(l.src.rows) : \A j \in 2..Len(l.src.header) : l.src.rows[i][j] = "u"}

SourceIds(src) == {src.rows[i][1] : i \in 1..Len(src.rows)}

----------------------------------------------------------------------------
(* SpecLoad: any sequence of load calls with well-formed sources on an      *)
(* initially empty collection.                                              *)
(* SpecSchema: any sequence of load calls, the header of the source being   *)
(* any one.                                                                 *)

InitLoad ==
    /\ order = << >>
    /\ instances = << >>
    /\ last = [op |-> "init"]
    /\ input = << >>
    /\ dest = << >>

\* load_delimited; last keeps the call's kind, columns and the ids of its source
LoadDelimited(call, src) ==
    \E r \in {load_from_tsv([order |-> order, instances |-> instances], src, call.type, call.params)} :
        /\ order' = r.c.order
        /\ instances' = r.c.instances
        /\ last' = [op |-> "load", type |-> call.type, params |-> call.params,
                    ids |-> SourceIds(src), err |-> r.err]
        /\ UNCHANGED <<input, dest>>

\* load_delimited; last keeps the call's columns and the header of its source
LoadDelimitedHeader(call, src) ==
    \E r \in {load_from_tsv([order |-> order, instances |-> instances], src, call.type, call.params)} :
        /\ order' = r.c.order
        /\ instances' = r.c.instances
        /\ last' = [op |-> "load", type |-> call.type, params |-> call.params,
                    header |-> src.header, rows |-> Len(src.rows), err |-> r.err]
        /\ UNCHANGED <<input, dest>>

NextLoad == \E l \in WellFormedLoads : LoadDelimited(l.call, l.src)

SpecLoad == InitLoad /\ [][NextLoad]_vars

NextSchema == \E l \in PlainLoads : LoadDelimitedHeader(l.call, l.src)

SpecSchema == InitLoad /\ [][NextSchema]_vars

----------------------------------------------------------------------------
(* SpecMerge: from an empty collection, one properties source, one features *)
(* source and one target source holding the same ids are loaded, each once, *)
(* in any order.                                                            *)

MergeKinds == <<"properties", "features", "target">>

MergeInputs ==
    {m \in [Range(MergeKinds) -> WellFormedLoads] :
        /\ \A k \in Range(MergeKinds) : m[k].call.type = k
        /\ SourceIds(m["properties"].src) # {}
        /\ SourceIds(m["features"].src) = SourceIds(m["properties"].src)
        /\ SourceIds(m["target"].src) = SourceIds(m["properties"].src)}

InitMerge ==
    /\ order = << >>
    /\ instances = << >>
    /\ last = [op |-> "init", done |-> << >>]
    /\ input \in MergeInputs
    /\ dest = << >>

\* the load call of kind k, made once
LoadKind(k) ==
    /\ k \notin Range(last.done)
    /\ \E r \in {load_from_tsv([order |-> order, instances |-> instances],
                               input[k].src, k, input[k].call.params)} :
        /\ order' = r.c.order
        /\ instances' = r.c.instances
        /\ last' = [op |-> "load", done |-> Append(last.done, k)]
    /\ UNCHANGED <<input, dest>>

NextMerge == \E k \in Range(MergeKinds) : LoadKind(k)

SpecMerge == InitMerge /\ [][NextMerge]_vars

\* the collection after the three loads made in the order ks
RECURSIVE LoadInOrder(_, _, _)
LoadInOrder(c, m, ks) ==
    IF ks = << >> THEN c
    ELSE LoadInOrder(load_from_tsv(c, m[Head(ks)].src, Head(ks), m[Head(ks)].call.params).c,
                     m, Tail(ks))

----------------------------------------------------------------------------
(* Claims about load_delimited *)

Occurrences(s, x) == Cardinality({i \in 1..Len(s) : s[i] = x})

WrittenBy(call, type, name) == call.type = type /\ name \in Range(call.params)

\* C1: a load call keeps one instance per id already in the collection,
\* leaves every property, feature and target value that is not a column
\* written by the call as it was, and leaves the instances whose id is not in
\* the source unchanged.
C1_LoadKeepsOtherFields ==
    [][(last'.op = "load" /\ last'.err = "none") =>
        /\ \A id \in DOMAIN instances :
            /\ id \in DOMAIN instances'
            /\ id \notin last'.ids => instances'[id] = instances[id]
            /\ \A n \in DOMAIN instances[id].properties :
                  ~WrittenBy(last', "properties", n) =>
                      get_property(instances'[id], n) = get_property(instances[id], n)
            /\ \A n \in DOMAIN instances[id].features :
                  ~WrittenBy(last', "features", n) =>
                      /\ n \in DOMAIN instances'[id].features
                      /\ instances'[id].features[n] = instances[id].features[n]
            /\ last'.type # "target" => instances'[id].target = instances[id].target
        /\ \A id \in DOMAIN instances' : Occurrences(order', id) = 1
        /\ Len(order') = Cardinality(DOMAIN instances')
      ]_vars

\* a features load has just touched an instance that already held properties
\* and a target, while another instance was not in the source
C1_Witness ==
    /\ last.op = "load" /\ last.type = "features" /\ last.err = "none"
    /\ \E id \in last.ids :
          /\ DOMAIN instances[id].properties = {"p1", "p2"}
          /\ instances[id].properties["p1"] = "v"
          /\ instances[id].target # None
          /\ instances[id].features # << >>
    /\ \E id \in DOMAIN instances : id \notin last.ids /\ instances[id].target # None

\* C2: once the properties, the features and the target source have been
\* loaded, in whichever of the six orders, the mapping id -> instance is the
\* one the order properties, features, target gives, and every id holds
\* properties, features and a target.
C2_MergeOrderIndependent ==
    Len(last.done) = 3 =>
        /\ instances = LoadInOrder(EmptyCollection, input, MergeKinds).instances
        /\ DOMAIN instances = SourceIds(input["properties"].src)
        /\ \A id \in DOMAIN instances :
              /\ DOMAIN instances[id].properties = Range(input["properties"].call.params)
              /\ DOMAIN instances[id].features = Range(input["features"].call.params)
              /\ instances[id].target # None

\* the three loads were made target first and properties last, on two ids
C2_Witness ==
    /\ last.done = <<"target", "features", "properties">>
    /\ Cardinality(DOMAIN instances) = 2
    /\ \A id \in DOMAIN instances :
          instances[id].properties # << >> /\ instances[id].features # << >>
          /\ instances[id].target # None

----------------------------------------------------------------------------
(* Strings whose characters matter: sequences of character codes *)

\* s < t as Python compares two strings: lexicographically by character code
RECURSIVE StrLess(_, _)
StrLess(s, t) ==
    CASE t = << >> -> FALSE
      [] s = << >> -> TRUE
      [] OTHER     -> \/ Head(s) < Head(t)
                      \/ Head(s) = Head(t) /\ StrLess(Tail(s), Tail(t))

\* the strings of S in ascending order
RECURSIVE SortedStrings(_)
SortedStrings(S) ==
    IF S = {} THEN << >>
    ELSE LET least == CHOOSE x \in S : \A y \in S \ {x} : StrLess(x, y)
         IN  <<least>> \o SortedStrings(S \ {least})

----------------------------------------------------------------------------
(* to_treceval *)

\* unique_entries, a dict of dicts, is the sequence of its (qid, doc_id,
\* score) entries in insertion order; a key is None or Some(string).
EntryScore(ue, qid, doc_id) ==
    IF \E i \in 1..Len(ue) : ue[i].qid = qid /\ ue[i].doc_id = doc_id
    THEN Some(ue[CHOOSE i \in 1..Len(ue) : ue[i].qid = qid /\ ue[i].doc_id = doc_id].score)
    ELSE None

\* unique_entries[qid][doc_id] = score
PutEntry(ue, qid, doc_id, score) ==
    IF EntryScore(ue, qid, doc_id) = None
    THEN Append(ue, [qid |-> qid, doc_id |-> doc_id, score |-> score])
    ELSE [i \in 1..Len(ue) |->
            IF ue[i].qid = qid /\ ue[i].doc_id = doc_id THEN [ue[i] EXCEPT !.score = score]
            ELSE ue[i]]

Replaces_LastWins(score, new) == TRUE

\* (score is None) or (score < ins.score)
Replaces(score, new) == score = None \/ score[1] < new

\* for ins in self.get_all(): if ins.score is not None: ...
RECURSIVE CollectEntries(_, _, _, _)
CollectEntries(ue, all, qid_prop, docid_prop) ==
    IF all = << >> THEN ue
    ELSE LET ins == Head(all)
         IN  IF ins.score = None
             THEN CollectEntries(ue, Tail(all), qid_prop, docid_prop)
             ELSE LET qid    == get_property(ins, qid_prop)
                      doc_id == get_property(ins, docid_prop)
                      score  == EntryScore(ue, qid, doc_id)
                      ue1    == IF Replaces(score, ins.score[1])
                                THEN PutEntry(ue, qid, doc_id, ins.score[1])
                                ELSE ue
                  IN  CollectEntries(ue1, Tail(all), qid_prop, docid_prop)

\* e put into the sequence docs, sorted by descending score, behind every
\* entry whose score is not lower (a stable sort)
RECURSIVE InsertDesc(_, _)
InsertDesc(docs, e) ==
    IF docs = << >> THEN <<e>>
    ELSE IF Head(docs).score >= e.score
         THEN <<Head(docs)>> \o InsertDesc(Tail(docs), e)
         ELSE <<e>> \o docs

RECURSIVE InsertAsc(_, _)
InsertAsc(docs, e) ==
    IF docs = << >> THEN <<e>>
    ELSE IF Head(docs).score <= e.score
         THEN <<Head(docs)>> \o InsertAsc(Tail(docs), e)
         ELSE <<e>> \o docs

RECURSIVE SortDocs_Ascending(_)
SortDocs_Ascending(docs) ==
    IF docs = << >> THEN << >>
    ELSE InsertAsc(SortDocs_Ascending(SubSeq(docs, 1, Len(docs) - 1)), docs[Len(docs)])

\* sorted(docs.items(), key=lambda x:x[1], reverse=True)
RECURSIVE SortDocs(_)
SortDocs(docs) ==
    IF docs = << >> THEN << >>
    ELSE InsertDesc(SortDocs(SubSeq(docs, 1, Len(docs) - 1)), docs[Len(docs)])

\* "{0:.5f}".format(score): a score is a number of millionths, the text
\* holds the nearest number of hundred-thousandths
Format5(score) == (score + 5) \div 10

\* the lines of one query: rank = 1; for doc_id, score in sorted(...): ...
QueryLines(qid, docs) ==
    [rank \in 1..Len(docs) |->
        [qid |-> qid, doc_id |-> docs[rank].doc_id[1], rank |-> rank,
         score |-> Format5(docs[rank].score)]]

\* for qid, docs in sorted(unique_entries.items()): ...
RECURSIVE TrecLines(_, _)
TrecLines(ue, qids) ==
    IF qids = << >> THEN << >>
    ELSE QueryLines(Head(qids), SortDocs(SelectSeq(ue, LAMBDA e : e.qid = Some(Head(qids)))))
         \o TrecLines(ue, Tail(qids))

\* the whole call: the lines written to the file, or the TypeError that
\* qid + "\tQ0\t" + doc_id raises when either is None (no file is written)
to_treceval(c, qid_prop, docid_prop) ==
    LET ue == CollectEntries(<< >>, get_all(c), qid_prop, docid_prop)
    IN  IF \E i \in 1..Len(ue) : ue[i].qid = None \/ ue[i].doc_id = None
        THEN [err |-> "TypeError", lines |-> << >>]
        ELSE [err |-> "none",
              lines |-> TrecLines(ue, SortedStrings({ue[i].qid[1] : i \in 1..Len(ue)}))]

----------------------------------------------------------------------------
(* SpecEval: a collection constructed from a list of instances, then        *)
(* to_treceval.                                                            *)

MaxEvalInstances == 3

\* the query ids "9" and "10": as strings "10" comes first
EvalQids == {<<57>>, <<49, 48>>}

EvalDocs == {"d1", "d2", "d3"}

\* 0.300000, 0.300004 and 0.900000
EvalScores == {300000, 300004, 900000}

EvalInstanceIds == <<"1", "2", "3", "4", "5">>

\* the instances with the given id: both properties set and any score or
\* none, or one of the two properties missing
EvalInstances(id) ==
    {[NewInstance(id) EXCEPT !.properties = [n \in {"qid", "en_id"} |-> IF n = "qid" THEN q ELSE d],
                             !.score = sc] :
        q \in EvalQids, d \in EvalDocs, sc \in {None} \cup {Some(x) : x \in EvalScores}}
    \cup {[NewInstance(id) EXCEPT !.properties = [n \in {only} |-> IF n = "qid" THEN <<57>> ELSE "d1"],
                                  !.score = sc] :
        only \in {"qid", "en_id"}, sc \in {None, Some(900000)}}

\* Instances(list): add_instance for each
RECURSIVE Construct(_, _)
Construct(c, list) ==
    IF list = << >> THEN c ELSE Construct(add_instance(c, Head(list)), Tail(list))

InitEval ==
    /\ \E n \in 0..MaxEvalInstances :
         \E list \in [1..n -> UNION {EvalInstances(EvalInstanceIds[i]) : i \in 1..n}] :
            /\ \A i \in 1..n : list[i].id = EvalInstanceIds[i]
            /\ order = Construct(EmptyCollection, list).order
            /\ instances = Construct(EmptyCollection, list).instances
    /\ last = [op |-> "init"]
    /\ input = << >>
    /\ dest = << >>

ToTreceval ==
    /\ last.op = "init"
    /\ \E r \in {to_treceval([order |-> order, instances |-> instances], "qid", "en_id")} :
        /\ last' = [op |-> "to_treceval", err |-> r.err]
        /\ dest' = r.lines
    /\ UNCHANGED <<order, instances, input>>

NextEval == ToTreceval

SpecEval == InitEval /\ [][NextEval]_vars

----------------------------------------------------------------------------
(* Claims about to_ranking_eval (to_treceval) *)

TrecDone == last.op = "to_treceval" /\ last.err = "none"

Scored == {id \in DOMAIN instances : instances[id].score # None}

PairOf(id) == <<get_property(instances[id], "qid"), get_property(instances[id], "en_id")>>

LinePair(line) == <<Some(line.qid), Some(line.doc_id)>>

\* the highest score among the scored instances that hold the pair
MaxScore(pair) ==
    LET scores == {instances[id].score[1] : id \in {x \in Scored : PairOf(x) = pair}}
    IN  CHOOSE m \in scores : \A x \in scores : x <= m

\* C4: the file holds exactly one line for every (qid, docid) pair that some
\* scored instance holds and no other line; the score of the line is the
\* highest score among the scored instances with that pair, so that an
\* instance without a score neither adds nor changes a line.
C4_OneLinePerPairWithMaxScore ==
    TrecDone =>
        /\ \A id \in Scored :
              Cardinality({i \in 1..Len(dest) : LinePair(dest[i]) = PairOf(id)}) = 1
        /\ \A i \in 1..Len(dest) :
              /\ \E id \in Scored : PairOf(id) = LinePair(dest[i])
              /\ dest[i].score = Format5(MaxScore(LinePair(dest[i])))

\* two scored instances share a pair with different scores, the lower one
\* coming last, and a third instance has no score and no docid: one line
C4_Witness ==
    /\ TrecDone
    /\ Len(order) = 3
    /\ instances["1"].score = Some(900000)
    /\ instances["2"].score = Some(300000)
    /\ PairOf("1") = PairOf("2")
    /\ instances["3"].score = None /\ get_property(instances["3"], "en_id") = None
    /\ Len(dest) = 1 /\ dest[1].score = 90000 /\ dest[1].rank = 1

\* the lines of the file that belong to query qid, in file order
LinesOf(qid) == SelectSeq(dest, LAMBDA line : line.qid = qid)

\* C5: in the file the lines of one query are contiguous, the queries come
\* in ascending order of qid, the k-th line of a query has rank k (so the
\* ranks of a query are 1..N without gap or repeat), and within a query a
\* line of smaller rank never has a lower score than one of larger rank.
C5_RanksAndGroupOrder ==
    TrecDone =>
        /\ \A i, j, k \in 1..Len(dest) :
              (i < j /\ j < k /\ dest[i].qid = dest[k].qid) => dest[j].qid = dest[i].qid
        /\ \A i, j \in 1..Len(dest) :
              (i < j /\ dest[i].qid # dest[j].qid) => StrLess(dest[i].qid, dest[j].qid)
        /\ \A i \in 1..Len(dest) :
              LET group == LinesOf(dest[i].qid)
              IN  \A k \in 1..Len(group) : group[k].rank = k
        /\ \A i, j \in 1..Len(dest) :
              (dest[i].qid = dest[j].qid /\ dest[i].rank < dest[j].rank)
                  => dest[i].score >= dest[j].score

\* the instance of query "9" comes first in the collection and two documents
\* of query "10" follow with ascending scores: the file holds query "10"
\* first, its higher score at rank 1, then query "9"
C5_Witness ==
    /\ TrecDone
    /\ Len(dest) = 3
    /\ PairOf("1")[1] = Some(<<57>>)
    /\ instances["2"].score = Some(300000) /\ instances["3"].score = Some(900000)
    /\ dest[1].qid = <<49, 48>> /\ dest[1].rank = 1 /\ dest[1].score = 90000
    /\ dest[2].qid = <<49, 48>> /\ dest[2].rank = 2 /\ dest[2].score = 30000
    /\ dest[3].qid = <<57>> /\ dest[3].rank = 1

----------------------------------------------------------------------------
(* add_qids *)

NextQid_PerInstance(prop_ids, seen) == seen + 1

\* q_id = len(prop_ids) + 1; seen is the number of instances visited so far
NextQid(prop_ids, seen) == Cardinality(DOMAIN prop_ids) + 1

\* for ins in self.get_all(): ...; prop_ids maps a property value (None when
\* the instance does not hold the property) to its integer
RECURSIVE AssignQids(_, _, _, _, _)
AssignQids(c, all, prop, prop_ids, seen) ==
    IF all = << >> THEN c
    ELSE LET ins == Head(all)
             p   == get_property(ins, prop)
             ids == IF p \in DOMAIN prop_ids THEN prop_ids
                    ELSE DictPut(prop_ids, p, NextQid(prop_ids, seen))
             c1  == [c EXCEPT !.instances[ins.id] = add_property(@, "q_id", ids[p])]
         IN  AssignQids(c1, Tail(all), prop, ids, seen + 1)

add_qids(c, prop) == AssignQids(c, get_all(c), prop, << >>, 0)

----------------------------------------------------------------------------
(* SpecQid: a collection constructed from a list of instances, then         *)
(* add_qids on one of its properties.                                       *)

MaxQidInstances == 3

QidInstanceIds == <<"1", "2", "3", "4", "5">>

\* the property dicts: "grp" unset or one of three values, "q_id" unset or
\* one of two values
QidProperties ==
    {f \in UNION {[D -> {"x", "y", "z"}] : D \in SUBSET {"grp", "q_id"}} :
        "q_id" \in DOMAIN f => f["q_id"] # "z"}

InitQid ==
    /\ \E n \in 0..MaxQidInstances :
         \E props \in [1..n -> QidProperties] :
            LET list == [i \in 1..n |-> [NewInstance(QidInstanceIds[i]) EXCEPT !.properties = props[i]]]
            IN  /\ order = Construct(EmptyCollection, list).order
                /\ instances = Construct(EmptyCollection, list).instances
    /\ last = [op |-> "init"]
    /\ input = << >>
    /\ dest = << >>

AddQids(prop) ==
    /\ last.op = "init"
    /\ \E c \in {add_qids([order |-> order, instances |-> instances], prop)} :
        /\ order' = c.order
        /\ instances' = c.instances
    /\ last' = [op |-> "add_qids", prop |-> prop]
    /\ UNCHANGED <<input, dest>>

NextQidStep == \E prop \in {"grp", "q_id"} : AddQids(prop)

SpecQid == InitQid /\ [][NextQidStep]_vars

\* the number of different values of prop (unset counting as one value)
\* that the first k instances of the collection hold
DistinctAmongFirst(prop, k) ==
    Cardinality({get_property(instances[order[j]], prop) : j \in 1..k})

\* the position of the first instance that holds the same value as the i-th
FirstWithValueOf(prop, i) ==
    CHOOSE j \in 1..i :
        /\ get_property(instances[order[j]], prop) = get_property(instances[order[i]], prop)
        /\ \A k \in 1..(j - 1) :
              get_property(instances[order[k]], prop) # get_property(instances[order[i]], prop)

\* C8: add_qids(prop) on a collection whose instances hold N different
\* values of prop (an instance without the property holds the value None)
\* stores under "q_id" exactly the integers 1..N, the same integer on two
\* instances exactly when they held the same value, numbered in the order in
\* which the values are first met when the collection is iterated.
C8_QidsSequentialByFirstEncounter ==
    [][last'.op = "add_qids" =>
        LET prop == last'.prop
            n    == Len(order)
            qid(id) == instances'[id].properties["q_id"]
        IN  /\ order' = order
            /\ {qid(id) : id \in DOMAIN instances} = 1..DistinctAmongFirst(prop, n)
            /\ \A a, b \in DOMAIN instances :
                  qid(a) = qid(b) <=>
                      get_property(instances[a], prop) = get_property(instances[b], prop)
            /\ \A i \in 1..n :
                  qid(order[i]) = DistinctAmongFirst(prop, FirstWithValueOf(prop, i))
      ]_vars

\* three instances hold the values y, x, y of "grp": they got 1, 2, 1
C8_Witness ==
    /\ last.op = "add_qids" /\ last.prop = "grp"
    /\ Len(order) = 3
    /\ get_property(instances["1"], "grp") = Some("y")
    /\ get_property(instances["2"], "grp") = Some("x")
    /\ get_property(instances["3"], "grp") = Some("y")
    /\ instances["1"].properties["q_id"] = 1
    /\ instances["2"].properties["q_id"] = 2
    /\ instances["3"].properties["q_id"] = 1

----------------------------------------------------------------------------
(* to_json, from_json and the dict form of the constructor *)

\* A Python dict whose iteration order matters is [keys |-> the keys in
\* iteration order, items |-> key -> value].
EmptyDict == [keys |-> << >>, items |-> << >>]

\* Instance.to_json: {id: {properties, features, target, score}}, a target or
\* score that is None being left out
InstanceToJson(ins) ==
    LET present == {"properties", "features"}
                   \cup (IF ins.target # None THEN {"target"} ELSE {})
                   \cup (IF ins.score # None THEN {"score"} ELSE {})
        fields  == [f \in present |->
                      CASE f = "properties" -> ins.properties
                        [] f = "features"   -> ins.features
                        [] f = "target"     -> ins.target[1]
                        [] OTHER            -> ins.score[1]]
    IN  [keys |-> <<ins.id>>, items |-> [k \in {ins.id} |-> fields]]

\* Instance.from_json(ins_id, fields): missing fields stay unset
InstanceFromJson(ins_id, fields) ==
    [id         |-> ins_id,
     properties |-> IF "properties" \in DOMAIN fields THEN fields["properties"] ELSE << >>,
     features   |-> IF "features" \in DOMAIN fields THEN fields["features"] ELSE << >>,
     target     |-> IF "target" \in DOMAIN fields THEN Some(fields["target"]) ELSE None,
     score      |-> IF "score" \in DOMAIN fields THEN Some(fields["score"]) ELSE None]

DictUpdate_Assign(d, e) == e

\* d.update(e)
DictUpdate(d, e) ==
    [keys  |-> d.keys \o SelectSeq(e.keys, LAMBDA k : k \notin DOMAIN d.items),
     items |-> [k \in DOMAIN d.items \cup DOMAIN e.items |->
                  IF k \in DOMAIN e.items THEN e.items[k] ELSE d.items[k]]]

\* inss_json = {}; for ins in self.get_all(): inss_json.update(ins.to_json())
RECURSIVE CollectJson(_, _)
CollectJson(inss_json, all) ==
    IF all = << >> THEN inss_json
    ELSE CollectJson(DictUpdate(inss_json, InstanceToJson(Head(all))), Tail(all))

to_json(c) == CollectJson(EmptyDict, get_all(c))

\* the names the model uses as dict keys, in ascending string order
NamesSorted == <<"f1", "features", "grp", "properties", "q_id", "score", "target">>

SortedNames(S) == SelectSeq(NamesSorted, LAMBDA n : n \in S)

\* A JSON object is the sequence of its <<key, value>> members.  A string or
\* a number is written and read back as the same string or number.
JsonObject(keys, items) == [i \in 1..Len(keys) |-> <<keys[i], items[keys[i]]>>]

JsonFields(fields) ==
    JsonObject(SortedNames(DOMAIN fields),
               [f \in DOMAIN fields |->
                  IF f \in {"properties", "features"}
                  THEN JsonObject(SortedNames(DOMAIN fields[f]), fields[f])
                  ELSE fields[f]])

\* json.dump(inss_json, out, indent=4, sort_keys=True)
JsonDump(inss_json) ==
    JsonObject(SortedStrings(DOMAIN inss_json.items),
               [id \in DOMAIN inss_json.items |-> JsonFields(inss_json.items[id])])

\* the dict a JSON object is read as: its members by key
ParseObject(members) ==
    [k \in {members[i][1] : i \in 1..Len(members)} |->
        members[CHOOSE i \in 1..Len(members) : members[i][1] = k][2]]

ParseFields(members) ==
    LET fields == ParseObject(members)
    IN  [f \in DOMAIN fields |->
           IF f \in {"properties", "features"} THEN ParseObject(fields[f]) ELSE fields[f]]

\* json.load(json_data): the keys come in the order of the file
JsonLoad(file) ==
    LET data == ParseObject(file)
    IN  [keys  |-> [i \in 1..Len(file) |-> file[i][1]],
         items |-> [id \in DOMAIN data |-> ParseFields(data[id])]]

\* for ins_id, fields in data.items(): Instance.from_json(ins_id, fields)
InstanceList(data) ==
    [i \in 1..Len(data.keys) |-> InstanceFromJson(data.keys[i], data.items[data.keys[i]])]

\* Instances.from_json(json_file): return cls(instance_list)
from_json(file) == Construct(EmptyCollection, InstanceList(JsonLoad(file)))

\* Instances(instances) for a dict: add_instance(Instance.from_json(id, fields))
InstancesFromDict(data) == Construct(EmptyCollection, InstanceList(data))

----------------------------------------------------------------------------
(* SpecJson: a collection constructed from a list of instances is written   *)
(* with to_json and read back, from the file or from the returned dict.     *)

MaxJsonInstances == 2

\* the ids "1", "2" and "10"
JsonIds == {<<49>>, <<50>>, <<49, 48>>}

JsonInstances(id) ==
    {[id |-> id, properties |-> p, features |-> f, target |-> t, score |-> sc] :
        p  \in {<< >>, [n \in {"grp"} |-> "x"], [n \in {"grp", "q_id"} |-> IF n = "grp" THEN "x" ELSE 1]},
        f  \in {<< >>, [n \in {"f1"} |-> 5]},
        t  \in {None, Some("0")},
        sc \in {None, Some(300000)}}

InitJson ==
    /\ \E n \in 0..MaxJsonInstances :
         \E list \in [1..n -> UNION {JsonInstances(id) : id \in JsonIds}] :
            /\ \A i, j \in 1..n : i # j => list[i].id # list[j].id
            /\ order = Construct(EmptyCollection, list).order
            /\ instances = Construct(EmptyCollection, list).instances
    /\ last = [op |-> "init"]
    /\ input = << >>
    /\ dest = << >>

\* to_json(json_file)
ToJsonFile ==
    /\ last.op = "init"
    /\ dest' = JsonDump(to_json([order |-> order, instances |-> instances]))
    /\ last' = [op |-> "to_json"]
    /\ UNCHANGED <<order, instances, input>>

\* Instances.from_json(json_file) on the file to_json wrote
FromJsonFile ==
    /\ last.op = "to_json"
    /\ last' = [op |-> "from_json", result |-> from_json(dest)]
    /\ UNCHANGED <<order, instances, input, dest>>

\* Instances(self.to_json())
FromJsonDict ==
    /\ last.op = "init"
    /\ last' = [op |-> "from_dict",
                result |-> InstancesFromDict(to_json([order |-> order, instances |-> instances]))]
    /\ UNCHANGED <<order, instances, input, dest>>

NextJson == ToJsonFile \/ FromJsonFile \/ FromJsonDict

SpecJson == InitJson /\ [][NextJson]_vars

----------------------------------------------------------------------------
(* to_str *)

\* Instance.to_str(): the text of one instance, which names it
InstanceToStr(ins) == <<"instance", ins.id>>

StrBatch == 1000

\* the text of the decimal numeral of n, as character codes
RECURSIVE Digits(_)
Digits(n) == IF n < 10 THEN <<48 + n>> ELSE Append(Digits(n \div 10), 48 + (n % 10))

\* The locals of the call are [counter, out, file]: file is what the
\* destination holds, out the lines not yet written.
ToStrFlush_ClearsAlways(st, with_file) ==
    IF (st.counter % StrBatch) = 0
    THEN [st EXCEPT !.file = IF with_file THEN st.file \o st.out ELSE st.file, !.out = << >>]
    ELSE st

\* if (counter % 1000) == 0: if out_file is not None: out_file.write(out); out = ""
ToStrFlush(st, with_file) ==
    IF (st.counter % StrBatch) = 0 /\ with_file
    THEN [st EXCEPT !.file = st.file \o st.out, !.out = << >>]
    ELSE st

\* one turn of the loop: out += ins.to_str() + "\n"; counter += 1; ...
ToStrTurn(st, ins, with_file) ==
    ToStrFlush([st EXCEPT !.out = Append(st.out, InstanceToStr(ins)), !.counter = st.counter + 1],
               with_file)

\* for ins in self.get_all(): the turns for all[lo..hi], in order
RECURSIVE ToStrLoop(_, _, _, _, _)
ToStrLoop(st, all, lo, hi, with_file) ==
    IF lo > hi THEN st
    ELSE IF lo = hi THEN ToStrTurn(st, all[lo], with_file)
    ELSE LET mid == (lo + hi) \div 2
         IN  CHOOSE r \in {ToStrLoop(first, all, mid + 1, hi, with_file) :
                              first \in {ToStrLoop(st, all, lo, mid, with_file)}} : TRUE

\* the whole call: what the destination holds afterwards and what is
\* returned (None when a file name is given)
to_str(c, file, with_file) ==
    LET all == get_all(c)
        st  == ToStrLoop([counter |-> 0, out |-> << >>,
                          file |-> IF with_file THEN << >> ELSE file],
                         all, 1, Len(all), with_file)
    IN  IF with_file
        THEN [file |-> st.file \o st.out, returned |-> None]
        ELSE [file |-> st.file, returned |-> Some(st.out)]

----------------------------------------------------------------------------
(* SpecLines: on a collection of a size around a multiple of the batch      *)
(* size, to_str is called once without and once with a destination file,    *)
(* which may hold earlier contents.                                         *)

MaxBatches == 2

\* the sizes at most two away from a multiple of the batch size
BatchSizes(batch) ==
    {n \in {k * batch + d : k \in 0..MaxBatches, d \in (-2)..2} : n >= 0}

\* the collection of the instances "1" .. "n", none with any field
NumberedCollection(n) ==
    [order     |-> [i \in 1..n |-> Digits(i)],
     instances |-> [id \in {Digits(i) : i \in 1..n} |-> NewInstance(id)]]

InitLines ==
    /\ \E n \in BatchSizes(StrBatch) :
        /\ order = NumberedCollection(n).order
        /\ instances = NumberedCollection(n).instances
    /\ input \in {[previous |-> p] : p \in {<< >>, <<"stale">>}}
    /\ dest = input.previous
    /\ last = [op |-> "init", file |-> FALSE, returned |-> None, done |-> {}]

\* to_str(file_name) when with_file, to_str() otherwise
ToStr(with_file) ==
    /\ (IF with_file THEN "file" ELSE "text") \notin last.done
    /\ \E r \in {to_str([order |-> order, instances |-> instances], dest, with_file)} :
        /\ dest' = r.file
        /\ last' = [op |-> "to_str", file |-> with_file,
                    returned |-> IF with_file THEN last.returned ELSE r.returned,
                    done |-> last.done \cup {IF with_file THEN "file" ELSE "text"}]
    /\ UNCHANGED <<order, instances, input>>

NextLines == \E with_file \in BOOLEAN : ToStr(with_file)

SpecLines == InitLines /\ [][NextLines]_vars

ExpectedLines == [i \in 1..Len(order) |-> InstanceToStr(instances[order[i]])]

\* C10: once to_str has run both ways on the collection, the chunks written
\* to the file, in order, are the text returned without a file: one line per
\* instance in the collection's iteration order, none lost and none twice,
\* whatever the size of the collection is relative to the batch size.
C10_FileEqualsReturnedText ==
    /\ "file" \in last.done => dest = ExpectedLines
    /\ "text" \in last.done => last.returned = Some(ExpectedLines)
    /\ last.done = {"file", "text"} => Some(dest) = last.returned

\* both calls are over on a collection of two batches and one instance whose
\* file held earlier contents, the file call last
C10_Witness ==
    /\ last.done = {"file", "text"} /\ last.file
    /\ input.previous # << >>
    /\ Len(order) = 2 * StrBatch + 1
    /\ Len(dest) = 2 * StrBatch + 1

----------------------------------------------------------------------------
(* to_libsvm *)

LibsvmBatch == 1000

\* int(text) succeeds: a non-empty text of decimal digits (the texts of the
\* model hold no sign, blank or underscore)
IsInt(text) == text # << >> /\ \A i \in 1..Len(text) : text[i] \in 48..57

\* int(text)
RECURSIVE ParseInt(_)
ParseInt(text) ==
    IF text = << >> THEN 0
    ELSE 10 * ParseInt(SubSeq(text, 1, Len(text) - 1)) + (text[Len(text)] - 48)

\* what the sort key lambda hands to int(): ins.id, or
\* ins.get_property(qid_prop), which is None when the property is unset
SortKeyText(ins, qid_prop) ==
    IF qid_prop = None THEN Some(ins.id) ELSE get_property(ins, qid_prop[1])

KeyParses(ins, qid_prop) ==
    SortKeyText(ins, qid_prop) # None /\ IsInt(SortKeyText(ins, qid_prop)[1])

IntKey(ins, qid_prop) == ParseInt(SortKeyText(ins, qid_prop)[1])

\* the instances of all whose key is in keys, by ascending key, those of one
\* key in the order they have in all
RECURSIVE ByAscendingKey(_, _, _)
ByAscendingKey(all, keys, qid_prop) ==
    IF keys = {} THEN << >>
    ELSE LET least == CHOOSE k \in keys : \A x \in keys : k <= x
         IN  SelectSeq(all, LAMBDA ins : IntKey(ins, qid_prop) = least)
             \o ByAscendingKey(all, keys \ {least}, qid_prop)

RECURSIVE ByAscendingText(_, _, _)
ByAscendingText(all, texts, qid_prop) ==
    IF texts = << >> THEN << >>
    ELSE SelectSeq(all, LAMBDA ins : SortKeyText(ins, qid_prop)[1] = Head(texts))
         \o ByAscendingText(all, Tail(texts), qid_prop)

SortedInstances_ByText(all, qid_prop) ==
    ByAscendingText(all, SortedStrings({SortKeyText(all[i], qid_prop)[1] : i \in 1..Len(all)}),
                    qid_prop)

\* sorted(self.get_all(), key=lambda ins: int(...)): a stable sort
SortedInstances(all, qid_prop) ==
    ByAscendingKey(all, {IntKey(all[i], qid_prop) : i \in 1..Len(all)}, qid_prop)

\* the exception int() raises on the first key, in list order, it refuses
SortError(all, qid_prop) ==
    LET bad == CHOOSE i \in 1..Len(all) :
                   /\ ~KeyParses(all[i], qid_prop)
                   /\ \A j \in 1..(i - 1) : KeyParses(all[j], qid_prop)
    IN  IF SortKeyText(all[bad], qid_prop) = None THEN "TypeError" ELSE "ValueError"

\* "# target instance_Id" followed by the feature names
LibsvmHeader(features) == [header |-> features]

\* Instance.to_libsvm(features, qid_prop):
\* <target> qid:<qid-or-id> <feature-index>:<value> ... # <id>, only the
\* features the instance holds
InstanceToLibsvm(ins, features, qid_prop) ==
    [target   |-> ins.target,
     qid      |-> SortKeyText(ins, qid_prop),
     features |-> [i \in 1..Len(SelectSeq(features, LAMBDA f : f \in DOMAIN ins.features)) |->
                     LET f == SelectSeq(features, LAMBDA g : g \in DOMAIN ins.features)[i]
                         idx == CHOOSE k \in 1..Len(features) : features[k] = f
                     IN  <<idx, ins.features[f]>>],
     id       |-> ins.id]

LibsvmPrepare_SortFirst(c, file, qid_prop) ==
    LET all      == get_all(c)
        features == SortedNames(DOMAIN all[1].features)
    IN  IF \E i \in 1..Len(all) : ~KeyParses(all[i], qid_prop)
        THEN [file |-> file, out |-> << >>, sorted |-> << >>,
              features |-> features, err |-> SortError(all, qid_prop)]
        ELSE [file |-> << >>, out |-> <<LibsvmHeader(features)>>,
              sorted |-> SortedInstances(all, qid_prop), features |-> features, err |-> "none"]

\* from "Getting features" to the sort: the feature names of the first
\* instance, the destination emptied, the header put into out, the sort
LibsvmPrepare(c, file, qid_prop) ==
    LET all      == get_all(c)
        features == SortedNames(DOMAIN all[1].features)
    IN  IF \E i \in 1..Len(all) : ~KeyParses(all[i], qid_prop)
        THEN [file |-> << >>, out |-> <<LibsvmHeader(features)>>, sorted |-> << >>,
              features |-> features, err |-> SortError(all, qid_prop)]
        ELSE [file |-> << >>, out |-> <<LibsvmHeader(features)>>,
              sorted |-> SortedInstances(all, qid_prop), features |-> features, err |-> "none"]

\* one turn of the loop: out += ins.to_libsvm(...) + "\n"; counter += 1;
\* if (counter % 1000) == 0: out_file.write(out); out = ""
LibsvmTurn(st, ins, features, qid_prop) ==
    LET out1 == Append(st.out, InstanceToLibsvm(ins, features, qid_prop))
    IN  IF ((st.counter + 1) % LibsvmBatch) = 0
        THEN [counter |-> st.counter + 1, out |-> << >>, file |-> st.file \o out1]
        ELSE [counter |-> st.counter + 1, out |-> out1, file |-> st.file]

\* for ins in sorted_instances: the turns for sorted[lo..hi], in order
RECURSIVE LibsvmLoop(_, _, _, _, _, _)
LibsvmLoop(st, sorted, lo, hi, features, qid_prop) ==
    IF lo > hi THEN st
    ELSE IF lo = hi THEN LibsvmTurn(st, sorted[lo], features, qid_prop)
    ELSE LET mid == (lo + hi) \div 2
         IN  CHOOSE r \in {LibsvmLoop(first, sorted, mid + 1, hi, features, qid_prop) :
                              first \in {LibsvmLoop(st, sorted, lo, mid, features, qid_prop)}} : TRUE

\* the whole call: what the destination holds afterwards, and the exception
\* raised, if any
to_libsvm(c, file, qid_prop) ==
    IF Len(c.order) = 0
    THEN [file |-> << >>, err |-> "none"]
    ELSE CHOOSE r \in
            {IF p.err # "none"
             THEN [file |-> p.file, err |-> p.err]
             ELSE LET st == LibsvmLoop([counter |-> 0, out |-> p.out, file |-> p.file],
                                       p.sorted, 1, Len(p.sorted), p.features, qid_prop)
                  IN  [file |-> st.file \o st.out, err |-> "none"] :
             p \in {LibsvmPrepare(c, file, qid_prop)}} : TRUE

----------------------------------------------------------------------------
(* SpecTrain: a collection constructed from a list of instances, then       *)
(* to_libsvm into a file that holds earlier contents.                       *)

MaxTrainInstances == 3

\* the ids "9", "10", "3" and "1a"
TrainIds == {<<57>>, <<49, 48>>, <<51>>, <<49, 97>>}

\* the values of the property q_id: "2", "02", "10" and "x"
TrainQids == {<<50>>, <<48, 50>>, <<49, 48>>, <<120>>}

TrainInstances(id) ==
    {[NewInstance(id) EXCEPT !.properties = p, !.features = [n \in {"f1"} |-> 1],
                             !.target = Some("1")] :
        p \in {<< >>} \cup {[n \in {"q_id"} |-> q] : q \in TrainQids}}

\* the small collections: up to MaxTrainInstances instances of different ids
SmallTrainCollections ==
    UNION {{Construct(EmptyCollection, list) :
                list \in {l \in [1..n -> UNION {TrainInstances(id) : id \in TrainIds}] :
                             \A i, j \in 1..n : i # j => l[i].id # l[j].id}} :
           n \in 0..MaxTrainInstances}

\* the large collections: the instances "1" .. "n", instance i holding the
\* q_id i mod 3, for the sizes around a multiple of the batch size
LargeTrainCollection(n) ==
    [order     |-> [i \in 1..n |-> Digits(i)],
     instances |-> [id \in {Digits(i) : i \in 1..n} |->
                      add_property(NewInstance(id), "q_id", Digits(ParseInt(id) % 3))]]

LargeTrainSizes == {n \in BatchSizes(LibsvmBatch) : n > MaxTrainInstances}

InitTrain ==
    /\ \/ \E c \in SmallTrainCollections, q \in {None, Some("q_id")} :
            /\ order = c.order
            /\ instances = c.instances
            /\ input = [previous |-> <<"stale">>, qid_prop |-> q]
       \/ \E n \in LargeTrainSizes :
            /\ order = LargeTrainCollection(n).order
            /\ instances = LargeTrainCollection(n).instances
            /\ input = [previous |-> <<"stale">>, qid_prop |-> Some("q_id")]
    /\ dest = input.previous
    /\ last = [op |-> "init"]

ToLibsvm ==
    /\ last.op = "init"
    /\ \E r \in {to_libsvm([order |-> order, instances |-> instances], dest, input.qid_prop)} :
        /\ dest' = r.file
        /\ last' = [op |-> "to_libsvm", err |-> r.err]
    /\ UNCHANGED <<order, instances, input>>

NextTrain == ToLibsvm

SpecTrain == InitTrain /\ [][NextTrain]_vars

----------------------------------------------------------------------------
(* Claims about to_ranking_train (to_libsvm) *)

\* the collection is not empty and the sort key of some instance is not
\* integer-parseable
SomeKeyUnparseable ==
    /\ order # << >>
    /\ \E id \in DOMAIN instances : ~KeyParses(instances[id], input.qid_prop)

\* C6 as claimed: when some sort key is not integer-parseable the call fails
\* and, at the failure, the destination still holds its previous contents:
\* nothing was cleared and nothing was written.
C6_FailsBeforeAnyEffect ==
    (last.op = "to_libsvm" /\ SomeKeyUnparseable) =>
        /\ last.err # "none"
        /\ dest = input.previous

\* C6 as amended: when some sort key is not integer-parseable the call fails
\* after it has emptied the destination and before it writes anything: at
\* the failure the file holds neither its previous contents nor the header
\* nor any instance line.
C6_FailsAfterClearingOnly ==
    (last.op = "to_libsvm" /\ SomeKeyUnparseable) =>
        /\ last.err # "none"
        /\ dest = << >>

\* the call failed on the collection "9", "1a" sorted by id, whose file held
\* a line
C6_Witness ==
    /\ last.op = "to_libsvm" /\ last.err = "ValueError"
    /\ input.qid_prop = None
    /\ order = <<<<57>>, <<49, 97>>>>
    /\ input.previous = <<"stale">>
    /\ dest = << >>

AllKeysParse ==
    \A id \in DOMAIN instances : KeyParses(instances[id], input.qid_prop)

\* the integer sort key of the instance the i-th line of the file is about
\* (the first line is the header)
LineKey(i) == IntKey(instances[dest[i].id], input.qid_prop)

LinesWithKey(k) == {i \in 2..Len(dest) : LineKey(i) = k}

\* C7: when every sort key is integer-parseable the file holds, after the
\* header, one line per instance, each instance once, in non-decreasing order
\* of the integer value of the key, so that the lines of one key value are
\* one contiguous block.
C7_LinesSortedByIntKey ==
    (last.op = "to_libsvm" /\ order # << >> /\ AllKeysParse) =>
        /\ last.err = "none"
        /\ Len(dest) = Len(order) + 1
        /\ {dest[i].id : i \in 2..Len(dest)} = DOMAIN instances
        /\ \A i \in 2..(Len(dest) - 1) : LineKey(i) <= LineKey(i + 1)
        /\ \A block \in {LinesWithKey(k) : k \in {LineKey(i) : i \in 2..Len(dest)}} :
              \A i \in block : i + 1 \in block \/ \A j \in block : j <= i

\* three instances with the q_id texts "10", "2" and "02" were written: the
\* two of value 2 first, in their collection order, then the one of value 10
C7_Witness ==
    /\ last.op = "to_libsvm" /\ last.err = "none"
    /\ input.qid_prop = Some("q_id")
    /\ Len(order) = 3
    /\ get_property(instances[order[1]], "q_id") = Some(<<49, 48>>)
    /\ get_property(instances[order[2]], "q_id") = Some(<<50>>)
    /\ get_property(instances[order[3]], "q_id") = Some(<<48, 50>>)
    /\ dest[2].id = order[2] /\ dest[3].id = order[3] /\ dest[4].id = order[1]

=============================================================================
